---- MODULE Spec2Model ----
(***************************************************************************)
(* Model of the browser agent of prodev1000/index.  The repository holds   *)
(* two implementations of the same agent:                                  *)
(*   "IndexTs"   : src/IndexTs/src/agent/agent.ts with the message manager *)
(*                 of src/unnamed/part_001 and the controller of           *)
(*                 src/unnamed/part_000;                                   *)
(*   "tsvariant" : src/tsvariant/src/agent/agent.ts with                   *)
(*                 src/tsvariant/src/agent/message_manager.ts and the      *)
(*                 controller of src/unnamed/part_004.                     *)
(* The variable impl selects the implementation a behaviour runs.          *)
(***************************************************************************)
EXTENDS Integers, Sequences, FiniteSets, TLC

(* ------------------------------- bounds -------------------------------- *)

\* largest maxSteps a caller passes
MaxSteps == 2

\* number of run / runStream invocations made on one Agent instance
MaxRuns == 2

\* total number of step() calls over all invocations of one behaviour
MaxCalls == 2

Impls == {"IndexTs", "tsvariant"}

(* ----------------------------- action results -------------------------- *)

\* ActionResult {isDone, content, error}; tag "none" is undefined / null
NoResult == [tag |-> "none", isDone |-> FALSE, content |-> "", error |-> ""]

Result(done, content, error) ==
  [tag |-> "result", isDone |-> done, content |-> content, error |-> error]

\* what a registered handler does when it is invoked
HandlerOutcomes ==
  {"result", "failure", "done", "string", "object", "undefined", "throws"}

\* the value a handler returns, before normalisation
HandlerValue(h) ==
  CASE h = "result"  -> Result(FALSE, "text", "")
    [] h = "failure" -> Result(FALSE, "", "handler")
    [] h = "done"    -> Result(TRUE, "text", "")
    [] h = "object"  -> Result(FALSE, "text", "")
    [] OTHER         -> NoResult

\* Outcome of Controller.executeAction: either a returned ActionResult or a
\* thrown Error.
Returned(r) == [threw |-> FALSE, result |-> r]
Threw(msg) == [threw |-> TRUE, result |-> Result(FALSE, "", msg)]

\* Controller.executeAction of part_000: a failed lookup throws
\* "Action <name> not found"; every failure inside the try is rethrown, and
\* ActionResultSchema.parse rejects a string or an undefined result.
executeActionIndexTs(registered, h) ==
  IF ~registered THEN Threw("notfound")
  ELSE IF h \in {"throws", "string", "undefined"} THEN Threw("handler")
  ELSE Returned(HandlerValue(h))

\* Controller.executeAction of part_004: every outcome is normalised into an
\* ActionResult.
executeActionTsvariant(registered, h) ==
  IF ~registered THEN Returned(Result(FALSE, "", "notfound"))
  ELSE IF h = "throws" THEN Returned(Result(FALSE, "", "handler"))
  ELSE IF h = "string" THEN Returned(Result(FALSE, "text", ""))
  ELSE IF h = "undefined" THEN Returned(Result(FALSE, "generic", ""))
  ELSE Returned(HandlerValue(h))

\* controller.executeAction(action, browser) as the agent's step() calls it
executeAction(im, registered, h) ==
  IF im = "IndexTs" THEN executeActionIndexTs(registered, h)
  ELSE executeActionTsvariant(registered, h)

(* ------------------------------- messages ------------------------------ *)

\* A message of the history: its role, what it is, the number of image
\* blocks it holds, whether it still holds the original pair of full-size
\* screenshots, its is_state_message flag and the number of content blocks
\* that carry the cache marker.
Msg(role, kind, imgs, full, isState, cache) ==
  [role |-> role, kind |-> kind, imgs |-> imgs, full |-> full,
   isState |-> isState, cache |-> cache]

\* addSystemMessageAndUserPrompt of part_001: the two messages it pushes
BootstrapIndexTs ==
  << Msg("system", "sys", 0, FALSE, FALSE, 0),
     Msg("user", "task", 5, FALSE, FALSE, 0) >>

\* addSystemMessageAndUserPrompt of message_manager.ts: the system text and
\* the first block of the task message carry the marker
BootstrapTsvariant ==
  << Msg("system", "sys", 0, FALSE, FALSE, 1),
     Msg("user", "task", 5, FALSE, FALSE, 1) >>

Bootstrap(im) == IF im = "IndexTs" THEN BootstrapIndexTs ELSE BootstrapTsvariant

\* the message addCurrentStateMessage of part_001 pushes for a browser state
\* whose screenshots are present (shot) or missing: an image block per
\* screenshot
FullStateMsgIndexTs(shot) ==
  Msg("user", "state", IF shot THEN 2 ELSE 0, shot, FALSE, 0)

\* the message addCurrentStateMessage of message_manager.ts pushes: always two
\* image blocks, empty when the screenshots are null
FullStateMsgTsvariant(shot) == Msg("user", "state", 2, shot, FALSE, 0)

\* Mutant of previousActionText: the error is left out of the description.
previousActionTextNoError(im, res) ==
  IF res.tag # "none" /\ res.content # "" THEN "content" ELSE "none"

\* addCurrentStateMessage of part_001: the state description opens with the
\* previous action's error, else with its content
previousActionTextIndexTs(res) ==
  IF res.tag = "none" THEN "none"
  ELSE IF res.error # "" THEN "error"
  ELSE IF res.content # "" THEN "content"
  ELSE "none"

\* addCurrentStateMessage of message_manager.ts: <previous_action_output>
\* when content is truthy, then <previous_action_error> when error is
previousActionTextTsvariant(res) ==
  IF res.tag = "none" THEN "none"
  ELSE IF res.content # "" /\ res.error # "" THEN "both"
  ELSE IF res.error # "" THEN "error"
  ELSE IF res.content # "" THEN "content"
  ELSE "none"

\* what a state message says about the previous action's result
previousActionText(im, res) ==
  IF im = "IndexTs" THEN previousActionTextIndexTs(res)
  ELSE previousActionTextTsvariant(res)

FullStateMsg(im, shot) ==
  IF im = "IndexTs" THEN FullStateMsgIndexTs(shot)
  ELSE FullStateMsgTsvariant(shot)

\* the reduced state message of addMessageFromModelOutput
CompactMsg == Msg("user", "compact", 1, FALSE, TRUE, 1)

AssistantMsg == Msg("assistant", "assistant", 0, FALSE, FALSE, 0)

(* --------------------------- message manager --------------------------- *)

\* addMessageFromModelOutput of part_001, first loop: a user message flagged
\* is_state_message keeps its text blocks only (the marker of a reduced state
\* message sits on its image block and goes with it).
StripOneIndexTs(m) ==
  IF m.role = "user" /\ m.isState
  THEN [m EXCEPT !.imgs = 0, !.full = FALSE, !.cache = 0]
  ELSE m

\* addMessageFromModelOutput of message_manager.ts, first loop: a message
\* flagged isStateMessage keeps content[0] (the text block with the marker).
StripOneTsvariant(m) ==
  IF m.isState THEN [m EXCEPT !.imgs = 0, !.full = FALSE] ELSE m

StripImages(im, msgs) ==
  [i \in 1..Len(msgs) |->
     IF im = "IndexTs" THEN StripOneIndexTs(msgs[i])
     ELSE StripOneTsvariant(msgs[i])]

\* index of the last message whose index is in S, 0 if S is empty
LastOf(S) == IF S = {} THEN 0 ELSE CHOOSE i \in S : \A j \in S : j <= i

IsStateMsg(m) == m.isState
NonSystemMarked(m) == m.role # "system" /\ m.cache > 0

\* MessageManager.getMessages of part_001: every message flagged
\* is_state_message before the last such message loses its markers.
getMessagesIndexTs(msgs) ==
  LET last == LastOf({i \in 1..Len(msgs) : IsStateMsg(msgs[i])})
  IN [i \in 1..Len(msgs) |->
        IF msgs[i].isState /\ i < last
        THEN [msgs[i] EXCEPT !.cache = 0]
        ELSE msgs[i]]

\* MessageManager.getMessages of message_manager.ts: scanning from the end,
\* every non-system message before the last marked one loses its markers.
getMessagesTsvariant(msgs) ==
  LET last == LastOf({i \in 1..Len(msgs) : NonSystemMarked(msgs[i])})
  IN [i \in 1..Len(msgs) |->
        IF msgs[i].role # "system" /\ i < last
        THEN [msgs[i] EXCEPT !.cache = 0]
        ELSE msgs[i]]

\* Mutant of getMessages: the markers are left as they are.
getMessagesKeep(im, msgs) == msgs

\* messageManager.getMessages(): the list it returns; the message objects
\* are shared with the stored history, so the stored history changes too.
getMessages(im, msgs) ==
  IF im = "IndexTs" THEN getMessagesIndexTs(msgs)
  ELSE getMessagesTsvariant(msgs)

\* all but the last element
Front(s) == SubSeq(s, 1, Len(s) - 1)

\* Mutant of removeLastMessage: an assistant message is pushed instead.
removeLastMessageAppends(msgs) == Append(msgs, AssistantMsg)

\* message_manager.ts removeLastMessage
removeLastMessage(msgs) == IF Len(msgs) > 1 THEN Front(msgs) ELSE msgs

\* agent.ts (IndexTs) step, lines 137-139: getMessages, pop, setMessages
PopLast(msgs) == IF Len(msgs) > 0 THEN Front(msgs) ELSE msgs

\* addMessageFromModelOutput of part_001: the history after the call: the
\* assistant message, then the reduced state message when a screenshot exists
addMessageFromModelOutputIndexTs(msgs, shot) ==
  StripImages("IndexTs", msgs) \o << AssistantMsg >>
    \o (IF shot THEN << CompactMsg >> ELSE << >>)

\* addMessageFromModelOutput of message_manager.ts: the history after the
\* call: the reduced state message when a previous result and a screenshot
\* exist, then the assistant message
addMessageFromModelOutputTsvariant(msgs, hasPrev, shot) ==
  StripImages("tsvariant", msgs)
    \o (IF hasPrev /\ shot THEN << CompactMsg >> ELSE << >>)
    \o << AssistantMsg >>

addMessageFromModelOutput(im, msgs, hasPrev, shot) ==
  IF im = "IndexTs" THEN addMessageFromModelOutputIndexTs(msgs, shot)
  ELSE addMessageFromModelOutputTsvariant(msgs, hasPrev, shot)

(* -------------------------------- state -------------------------------- *)

VARIABLES
  impl,          \* which implementation runs
  pc,            \* main flow: "idle", "loop", "await", "teardown", "end"
  mode,          \* "none", "run" or "stream": the invocation in progress
  maxSteps,      \* the maxSteps argument
  timeout,       \* TRUE iff a timeout was passed (runStream)
  closeContext,  \* the closeContext option (tsvariant)
  stepCount,     \* stepCount / step of run and runStream
  prevStep,      \* the count the loop started from (prevStep, else 0)
  isDone,        \* isDone of run and runStream
  actionResult,  \* actionResult / result of run and runStream
  messages,      \* MessageManager.messages
  chunks,        \* the chunk types yielded by this runStream, in order
  ret,           \* how the invocation ended: "none", "output", "threw"
  outSteps,      \* step_count of the final AgentOutput
  sp,            \* the step() in flight: "none", "upd", "llm", "act"
  abandoned,     \* TRUE iff the step in flight lost the timeout race
  browserRef,    \* Agent.browser is defined
  browserOpen,   \* the browser context of that Browser is open
  bstate,        \* Browser.state: "null", "empty" (no screenshot), "captured"
  closes,        \* number of Browser.close() calls of this invocation
  saved,         \* the agent state the caller kept from the last invocation
  runs,          \* invocations started so far
  calls,         \* step() calls started so far
  started,       \* step() calls started by this invocation
  returned,      \* step() calls of this invocation that returned a result
  stepLog,       \* the last step(): its phase and the history before it
  excludeActions,\* Controller.excludeActions
  actions,       \* Controller.actions: the names that have a handler
  exec,          \* the last Controller.executeAction call and its outcome
  browserElements, \* the elements the page script reported, in its order
  cvElements,    \* the elements the vision detector reported, in its order
  fusionOp,      \* the element operation applied last, "none" before any
  fusionIn,      \* the list that operation was given
  fusionOut,     \* the list that operation returned
  iou,           \* calculateIou of the chosen pair, in both argument orders
  interactiveElements, \* BrowserState.interactive_elements, keyed by index
  detector,      \* Browser.detector is set, for the Browser that captured
  click,         \* the last click_element call and what it did
  detPc,         \* Detector.detectFromImage: "idle", "call", "backoff", "done"
  detSheets,     \* its detectSheets argument
  detAttempt,    \* attempt of retryDetection (0 in detectFromImage itself)
  detCalls,      \* the endpoint calls it made, "ok" or "fail" each, in order
  detDelays,     \* the delays it waited, in ms, in order
  detResult,     \* what it returned: "none" so far, "returned" or "threw"
  omitsInput,       \* the caller passes neither a prompt nor an agent state
  llmResponse,      \* generateAction on its own: the text the LLM returned
  llmOutput,        \* generateAction on its own: what it returned or threw
  snapshot,         \* addCurrentStateMessage on its own: the elements of the state
  listing           \* addCurrentStateMessage on its own: the element listing

agentVars ==
  << impl, pc, mode, maxSteps, timeout, closeContext, stepCount, prevStep,
     isDone,
     actionResult, messages, chunks, ret, outSteps, sp, abandoned,
     browserRef, browserOpen, bstate, closes, saved, runs, calls, started,
     returned, stepLog >>

\* the state of a Controller driven on its own
ctlVars == << excludeActions, actions, exec >>

\* the state of the element utilities and of a Browser driven on its own
fusionVars ==
  << browserElements, cvElements, fusionOp, fusionIn, fusionOut, iou,
     interactiveElements, detector, click >>

\* the state of a Detector driven on its own
detVars ==
  << detPc, detSheets, detAttempt, detCalls, detDelays, detResult >>

\* what the caller of run and runStream has decided to pass
callerVars == << omitsInput >>

\* the state of generateAction driven on its own
parseVars == << llmResponse, llmOutput >>

\* the state of addCurrentStateMessage driven on its own
listVars == << snapshot, listing >>

\* the variables the agent's operations leave alone
nonAgentVars == << ctlVars, fusionVars, detVars, callerVars, parseVars,
     listVars >>

\* the variables the Controller's operations leave alone
nonCtlVars == << agentVars, fusionVars, detVars, callerVars, parseVars,
     listVars >>

\* the variables the element utilities and the Browser leave alone
nonFusionVars == << agentVars, ctlVars, detVars, callerVars, parseVars,
     listVars >>

\* the variables the Detector leaves alone
nonDetVars == << agentVars, ctlVars, fusionVars, callerVars, parseVars,
     listVars >>

vars == << agentVars, ctlVars, fusionVars, detVars, callerVars, parseVars,
     listVars >>

\* registerDefaultActions: the built-in actions (three of them stand for the
\* catalogue), and a name no code registers
DefaultActions == {"done", "click_element", "go_to_url"}

\* a name a caller registers, and a name nobody registers
CustomActions == {"custom"}
ActionNames == DefaultActions \cup CustomActions \cup {"bogus"}

NoExec == [called |-> FALSE, name |-> "none", handler |-> "none",
           threw |-> FALSE, result |-> NoResult]

NoSaved == [has |-> FALSE, messages |-> << >>, step |-> 0, result |-> NoResult]

NoStep == [phase |-> "none", before |-> << >>, hadPrev |-> FALSE,
           prev |-> "none"]

NoIou == [called |-> FALSE]

NoClick == [called |-> FALSE]

NoDetection == [kind |-> "none", elements |-> << >>]

NoResponse == [tags |-> "none", json |-> "none"]

NoOutput == [kind |-> "none"]

NoListing == [called |-> FALSE, entries |-> << >>]

\* addCurrentStateMessage is not in use on its own
ListingIdle ==
  /\ snapshot = << >>
  /\ listing = NoListing

\* generateAction is not in use
ParseIdle ==
  /\ llmResponse = NoResponse
  /\ llmOutput = NoOutput

\* no detection in play
DetectorIdle ==
  /\ detPc = "idle"
  /\ detSheets = FALSE
  /\ detAttempt = 0
  /\ detCalls = << >>
  /\ detDelays = << >>
  /\ detResult = NoDetection

\* no element list in play: the state of the element utilities before use
FusionIdle ==
  /\ browserElements = << >>
  /\ cvElements = << >>
  /\ fusionOp = "none"
  /\ fusionIn = << >>
  /\ fusionOut = << >>
  /\ iou = NoIou
  /\ interactiveElements = << >>
  /\ detector = FALSE
  /\ click = NoClick

\* Agent constructor: IndexTs creates no Browser before setup; tsvariant
\* creates one, whose state is the empty placeholder of _initState.
Init ==
  /\ impl \in Impls
  /\ pc = "idle"
  /\ mode = "none"
  /\ maxSteps = 0
  /\ timeout = FALSE
  /\ closeContext = TRUE
  /\ stepCount = 0
  /\ prevStep = 0
  /\ isDone = FALSE
  /\ actionResult = NoResult
  /\ messages = << >>
  /\ chunks = << >>
  /\ ret = "none"
  /\ outSteps = 0
  /\ sp = "none"
  /\ abandoned = FALSE
  /\ browserRef = (impl = "tsvariant")
  /\ browserOpen = FALSE
  /\ bstate = IF impl = "tsvariant" THEN "empty" ELSE "null"
  /\ closes = 0
  /\ saved = NoSaved
  /\ runs = 0
  /\ calls = 0
  /\ started = 0
  /\ returned = 0
  /\ stepLog = NoStep
  /\ excludeActions = {}
  /\ actions = DefaultActions
  /\ exec = NoExec
  /\ FusionIdle
  /\ DetectorIdle
  /\ omitsInput = FALSE
  /\ ParseIdle
  /\ ListingIdle

Range(s) == {s[i] : i \in 1..Len(s)}

\* number of step() calls a loop starting at count `from` can make
Remaining(ms, from) == IF ms > from THEN ms - from ELSE 0

\* Browser.updateState: the Browser.state it leaves.  A failed capture keeps
\* the last known state.
Captured(cap, st) == IF cap = "ok" THEN "captured" ELSE st

\* the variables every invocation resets when it starts
BeginInvocation(m, ms, tmo, cc) ==
  /\ mode' = m
  /\ maxSteps' = ms
  /\ timeout' = tmo
  /\ closeContext' = cc
  /\ isDone' = FALSE
  /\ outSteps' = 0
  /\ runs' = runs + 1
  /\ started' = 0
  /\ returned' = 0
  /\ stepLog' = NoStep
  /\ UNCHANGED << impl, sp, abandoned, saved, calls >>
  /\ UNCHANGED nonAgentVars

(* ------------------------ starting an invocation ----------------------- *)

\* IndexTs: run(prompt, maxSteps, agentState) and runStream(prompt, options)
\* up to the first test of the loop condition: setup() creates and launches
\* the Browser when the agent has none, then setupMessages() restores the
\* saved state or pushes the bootstrap messages onto the history.
StartIndexTs(m, ms, useSaved, tmo, usePrev, launchOk) ==
  LET from == IF usePrev THEN saved.step ELSE 0
      setupOk == browserRef \/ launchOk
  IN
  /\ impl = "IndexTs"
  /\ pc \in {"idle", "end"}
  /\ sp = "none"
  /\ runs < MaxRuns
  /\ useSaved => saved.has
  /\ usePrev => (m = "stream" /\ saved.has)
  /\ tmo => m = "stream"
  /\ browserRef => launchOk
  /\ calls + Remaining(ms, from) <= MaxCalls
  /\ BeginInvocation(m, ms, tmo, TRUE)
  /\ IF setupOk
     THEN /\ browserRef' = TRUE
          /\ browserOpen' = TRUE
          /\ bstate' = IF browserRef THEN bstate ELSE "empty"
          /\ messages' = IF useSaved THEN saved.messages
                         ELSE messages \o Bootstrap(impl)
          /\ stepCount' = from
          /\ prevStep' = from
          /\ actionResult' = IF usePrev THEN saved.result ELSE NoResult
          /\ chunks' = << >>
          /\ closes' = 0
          /\ ret' = "none"
          /\ pc' = "loop"
     ELSE \* browser.init() throws: run rejects; runStream's outer catch
          \* yields an error chunk and closes the browser it just created
          /\ browserOpen' = FALSE
          /\ stepCount' = 0
          /\ prevStep' = 0
          /\ actionResult' = NoResult
          /\ UNCHANGED messages
          /\ pc' = "end"
          /\ IF m = "run"
             THEN /\ browserRef' = TRUE
                  /\ bstate' = "empty"
                  /\ chunks' = << >>
                  /\ closes' = 0
                  /\ ret' = "threw"
             ELSE /\ browserRef' = FALSE
                  /\ bstate' = "null"
                  /\ chunks' = << "step_error" >>
                  /\ closes' = 1
                  /\ ret' = "ended"

\* tsvariant: run(options) and runStream(options) up to the first test of
\* the loop condition: the argument checks, then _setupMessages().
StartTsvariant(m, ms, hasPrompt, useSaved, tmo, cc, usePrev, cap) ==
  LET from == IF usePrev /\ m = "stream" THEN saved.step ELSE 0
      prevRes == IF usePrev THEN saved.result ELSE NoResult
      \* "Either prompt or agentState must be provided"
      noInput == ~hasPrompt /\ ~useSaved
      \* runStream: prevStep needs prevActionResult, agentState, prevStep # 0
      badPrev == /\ m = "stream"
                 /\ usePrev
                 /\ (prevRes.tag = "none" \/ saved.step = 0 \/ ~useSaved)
      \* resuming: updateState() throws when the capture fails and the
      \* Browser holds no earlier state ("Invalid agent state")
      badState == useSaved /\ cap = "fail" /\ bstate = "null"
      st == Captured(cap, bstate)
  IN
  /\ impl = "tsvariant"
  /\ pc \in {"idle", "end"}
  /\ sp = "none"
  /\ runs < MaxRuns
  /\ useSaved => saved.has
  /\ usePrev => saved.has
  /\ tmo => m = "stream"
  /\ calls + Remaining(ms, from) <= MaxCalls
  /\ BeginInvocation(m, ms, tmo, cc)
  /\ chunks' = << >>
  /\ closes' = 0
  /\ browserRef' = TRUE
  /\ IF noInput \/ badPrev
     THEN /\ ret' = "threw"
          /\ pc' = "end"
          /\ stepCount' = 0
          /\ prevStep' = 0
          /\ actionResult' = NoResult
          /\ UNCHANGED << messages, browserOpen, bstate >>
     ELSE /\ browserOpen' = (browserOpen \/ cap = "ok")
          /\ bstate' = st
          /\ IF useSaved
             THEN IF badState
                  THEN /\ messages' = saved.messages
                       /\ ret' = "threw"
                       /\ pc' = "end"
                       /\ stepCount' = 0
                       /\ prevStep' = 0
                       /\ actionResult' = NoResult
                  ELSE /\ messages' = saved.messages
                            \o << FullStateMsg(impl, st = "captured") >>
                       /\ ret' = "none"
                       /\ pc' = "loop"
                       /\ stepCount' = from
                       /\ prevStep' = from
                       /\ actionResult' = prevRes
             ELSE /\ messages' = messages \o Bootstrap(impl)
                  /\ ret' = "none"
                  /\ pc' = "loop"
                  /\ stepCount' = from
                  /\ prevStep' = from
                  /\ actionResult' = prevRes

(* ------------------------------ the loop ------------------------------- *)

\* Mutant of loopCondition: the loop ignores the step budget.
loopConditionNoBudget == ~isDone

\* Mutant of loopCondition: the loop ignores isDone.
loopConditionNoDone == stepCount < maxSteps

\* the loop condition of run and runStream
loopCondition == stepCount < maxSteps /\ ~isDone

\* One more iteration: step() is called (IndexTs runStream: through
\* executeStepWithTimeout) and runs up to its first await, updateState().
BeginStep ==
  /\ pc = "loop"
  /\ loopCondition
  /\ sp = "none"
  /\ calls < MaxCalls
  /\ pc' = "await"
  /\ sp' = "upd"
  /\ abandoned' = FALSE
  /\ calls' = calls + 1
  /\ started' = started + 1
  /\ stepLog' = [phase |-> "running", before |-> messages,
                 hadPrev |-> actionResult.tag # "none", prev |-> "none"]
  /\ UNCHANGED nonAgentVars
  /\ UNCHANGED prevStep
  /\ UNCHANGED << impl, mode, maxSteps, timeout, closeContext, stepCount,
                  isDone, actionResult, messages, chunks, ret, outSteps,
                  browserRef, browserOpen, bstate, closes, saved, runs,
                  returned >>

\* The caller of step() takes its outcome: the step returned res (ok) or
\* threw (why names the place), leaving the history msgs.  elapsed: tsvariant's runStream finds
\* Date.now() - startTime > timeout after this step.  A step that lost the
\* timeout race settles with nobody awaiting it.
Settle(why, res, msgs, elapsed) ==
  LET ok == why = "returned" IN
  /\ sp' = "none"
  /\ abandoned' = FALSE
  /\ stepLog' = [stepLog EXCEPT !.phase = why, !.prev = "none"]
  /\ IF abandoned
     THEN /\ messages' = msgs
          /\ UNCHANGED << pc, stepCount, isDone, actionResult, chunks, ret,
                          returned, saved >>
     ELSE IF ok
     THEN /\ actionResult' = res
          /\ stepCount' = stepCount + 1
          /\ isDone' = res.isDone
          /\ returned' = returned + 1
          /\ ret' = ret
          /\ IF mode = "run"
             THEN /\ pc' = "loop"
                  /\ messages' = msgs
                  /\ UNCHANGED << chunks, saved >>
             ELSE IF impl = "tsvariant" /\ timeout /\ elapsed
             THEN \* TimeoutChunk{step, agentState: getState()}, then return
                  /\ pc' = "teardown"
                  /\ messages' = getMessages(impl, msgs)
                  /\ chunks' = Append(chunks, "step_timeout")
                  /\ saved' = [has |-> TRUE,
                               messages |-> getMessages(impl, msgs),
                               step |-> stepCount + 1, result |-> res]
             ELSE /\ pc' = "loop"
                  /\ messages' = msgs
                  /\ chunks' = Append(chunks, "step")
                  /\ UNCHANGED saved
     ELSE /\ messages' = msgs
          /\ UNCHANGED << actionResult, isDone, returned, saved >>
          /\ IF impl = "IndexTs"
             THEN IF mode = "run"
                  THEN \* no handler: run rejects, nothing is cleaned up
                       /\ pc' = "end"
                       /\ ret' = "threw"
                       /\ UNCHANGED << stepCount, chunks >>
                  ELSE \* the inner catch of runStream
                       /\ pc' = "loop"
                       /\ ret' = ret
                       /\ stepCount' = stepCount + 1
                       /\ chunks' = Append(chunks, "step_error")
             ELSE \* the catch after the loop, then finally
                  /\ pc' = "teardown"
                  /\ ret' = ret
                  /\ UNCHANGED << stepCount, chunks >>

\* step(): browser.updateState() settled; the state message is pushed, the
\* list to send is taken with getMessages() and the LLM is called.
StateCaptured(cap) ==
  LET st == Captured(cap, bstate)
      full == FullStateMsg(impl, st = "captured")
      hasPrev == actionResult.tag # "none"
      \* IndexTs reads this.browser after the await; tsvariant's updateState
      \* throws when the capture fails and the Browser holds no state
      throws == IF impl = "IndexTs" THEN ~browserRef
                ELSE cap = "fail" /\ bstate = "null"
  IN
  /\ sp = "upd"
  /\ UNCHANGED nonAgentVars
  /\ UNCHANGED prevStep
  /\ UNCHANGED << impl, mode, maxSteps, timeout, closeContext, outSteps,
                  browserRef, closes, runs, calls, started >>
  /\ IF throws
     THEN /\ UNCHANGED << browserOpen, bstate >>
          /\ Settle("capture", NoResult, messages, FALSE)
     ELSE /\ bstate' = st
          /\ browserOpen' = (browserOpen \/ cap = "ok")
          /\ sp' = "llm"
          /\ messages' =
               IF impl = "IndexTs" \/ hasPrev
               THEN getMessages(impl, Append(messages, full))
               ELSE getMessages(impl, messages)
          /\ stepLog' =
               [stepLog EXCEPT !.prev =
                  IF impl = "IndexTs" \/ hasPrev
                  THEN previousActionText(impl, actionResult)
                  ELSE "none"]
          /\ UNCHANGED << pc, stepCount, isDone, actionResult, chunks, ret,
                          abandoned, saved, returned >>

\* step(): the LLM call settled.  llm = "ok": a parsable output came back;
\* "bad": the call failed or the output could not be parsed.
LLMReturns(llm) ==
  LET hasPrev == actionResult.tag # "none"
      shot == bstate = "captured"
  IN
  /\ sp = "llm"
  /\ UNCHANGED nonAgentVars
  /\ UNCHANGED prevStep
  /\ UNCHANGED << impl, mode, maxSteps, timeout, closeContext, outSteps,
                  browserRef, browserOpen, bstate, closes, runs, calls,
                  started >>
  /\ IF llm = "bad"
     THEN Settle("llm", NoResult,
                 IF impl = "IndexTs" THEN messages
                 ELSE removeLastMessage(messages), FALSE)
     ELSE IF impl = "IndexTs" /\ ~browserRef
     THEN \* this.browser.getState() on an undefined browser
          Settle("nobrowser", NoResult, messages, FALSE)
     ELSE /\ sp' = "act"
          /\ messages' =
               IF impl = "IndexTs"
               THEN addMessageFromModelOutput(
                      impl, PopLast(getMessages(impl, messages)), hasPrev, shot)
               ELSE addMessageFromModelOutput(
                      impl,
                      IF hasPrev THEN removeLastMessage(messages) ELSE messages,
                      hasPrev, shot)
          /\ UNCHANGED << pc, stepCount, isDone, actionResult, chunks, ret,
                          abandoned, saved, returned, stepLog >>

\* the actions the model's output can name, and what their handlers do
DispatchCases ==
  {<< FALSE, "none" >>}
    \cup {<< TRUE, h >> : h \in {"result", "failure", "done", "throws"}}

\* step(): controller.executeAction() settled and step() returns or throws.
ActionReturns(registered, h, elapsed) ==
  LET e == executeAction(impl, registered, h)
  IN
  /\ sp = "act"
  /\ << registered, h >> \in DispatchCases
  /\ elapsed => (impl = "tsvariant" /\ mode = "stream" /\ timeout
                 /\ ~abandoned /\ ~e.threw)
  /\ UNCHANGED nonAgentVars
  /\ UNCHANGED prevStep
  /\ UNCHANGED << impl, mode, maxSteps, timeout, closeContext, outSteps,
                  browserRef, browserOpen, bstate, closes, runs, calls,
                  started >>
  /\ IF e.threw
     THEN Settle("dispatch", NoResult,
                 IF impl = "IndexTs" THEN messages
                 ELSE removeLastMessage(messages), FALSE)
     ELSE Settle("returned", e.result, messages, elapsed)

\* IndexTs executeStepWithTimeout: the timer settles before the step does.
\* Its callback takes getState(), the race resolves with the TimeoutChunk,
\* runStream yields it and breaks out of the loop; the step keeps running.
TimerFires ==
  /\ impl = "IndexTs"
  /\ mode = "stream"
  /\ timeout
  /\ pc = "await"
  /\ sp \in {"upd", "llm", "act"}
  /\ ~abandoned
  /\ abandoned' = TRUE
  /\ pc' = "teardown"
  /\ messages' = getMessages(impl, messages)
  /\ chunks' = Append(chunks, "step_timeout")
  /\ saved' = [has |-> TRUE, messages |-> getMessages(impl, messages),
               step |-> Len(messages),
               result |-> Result(FALSE, "", "timeout")]
  /\ UNCHANGED nonAgentVars
  /\ UNCHANGED prevStep
  /\ UNCHANGED << impl, mode, maxSteps, timeout, closeContext, stepCount,
                  isDone, actionResult, ret, outSteps, sp, browserRef,
                  browserOpen, bstate, closes, runs, calls, started, returned,
                  stepLog >>

\* Mutant of closesBrowser: the teardown never closes the browser.
closesBrowserNever == FALSE

\* Browser.close() is called by the teardown of this invocation
closesBrowser ==
  IF impl = "IndexTs" THEN browserRef ELSE closeContext

\* The code after the loop.  IndexTs: getState(), storage state, close the
\* browser when the agent has one, return the AgentOutput (run) or yield the
\* FinalOutputChunk (runStream).  tsvariant: the "maximum number of steps"
\* error chunk when runStream's loop ended undone, then the finally block:
\* storage state, close the browser when closeContext, return or yield the
\* AgentOutput built from getState().
Finish ==
  LET undone == impl = "tsvariant" /\ mode = "stream" /\ pc = "loop" /\ ~isDone
      c1 == IF undone THEN Append(chunks, "step_error") ELSE chunks
      timedOut == "step_timeout" \in Range(chunks)
      sent == getMessages(impl, messages)
      res == IF impl = "IndexTs" /\ actionResult.tag = "none"
             THEN Result(FALSE, "", "noresult")
             ELSE actionResult
  IN
  /\ \/ pc = "teardown"
     \/ pc = "loop" /\ ~loopCondition
  /\ pc' = "end"
  /\ messages' = sent
  /\ outSteps' = stepCount
  /\ ret' = "output"
  /\ chunks' = IF mode = "stream" THEN Append(c1, "final_output") ELSE c1
  /\ IF closesBrowser
     THEN /\ closes' = closes + 1
          /\ browserOpen' = FALSE
          /\ bstate' = "null"
          /\ browserRef' = (impl = "tsvariant")
     ELSE UNCHANGED << closes, browserOpen, bstate, browserRef >>
  /\ saved' = IF timedOut THEN saved
              ELSE [has |-> TRUE, messages |-> sent, step |-> stepCount,
                    result |-> res]
  /\ UNCHANGED nonAgentVars
  /\ UNCHANGED prevStep
  /\ UNCHANGED << impl, mode, maxSteps, timeout, closeContext, stepCount,
                  isDone, actionResult, sp, abandoned, runs, calls, started,
                  returned, stepLog >>

(* ---------------------------- the controller --------------------------- *)

\* new Controller(excludeActions): registerDefaultActions registers every
\* built-in action the exclusion list does not name.
InitController ==
  /\ impl \in Impls
  /\ pc = "idle"
  /\ mode = "none"
  /\ maxSteps = 0
  /\ timeout = FALSE
  /\ closeContext = TRUE
  /\ stepCount = 0
  /\ prevStep = 0
  /\ isDone = FALSE
  /\ actionResult = NoResult
  /\ messages = << >>
  /\ chunks = << >>
  /\ ret = "none"
  /\ outSteps = 0
  /\ sp = "none"
  /\ abandoned = FALSE
  /\ browserRef = FALSE
  /\ browserOpen = FALSE
  /\ bstate = "null"
  /\ closes = 0
  /\ saved = NoSaved
  /\ runs = 0
  /\ calls = 0
  /\ started = 0
  /\ returned = 0
  /\ stepLog = NoStep
  /\ excludeActions \in SUBSET (DefaultActions \cup CustomActions)
  /\ actions = DefaultActions \ excludeActions
  /\ exec = NoExec
  /\ FusionIdle
  /\ DetectorIdle
  /\ omitsInput = FALSE
  /\ ParseIdle
  /\ ListingIdle

\* Controller.registerAction(name, description, func, browserContext)
registerAction(name) ==
  /\ name \notin excludeActions
  /\ actions' = actions \cup {name}
  /\ UNCHANGED << excludeActions, exec >>
  /\ UNCHANGED nonCtlVars

\* Controller.executeAction({name, params}, browser) on a handler that
\* behaves as h when the name has one
ExecuteAction(name, h) ==
  LET registered == name \in actions
      e == executeAction(impl, registered, h)
  IN
  /\ exec' = [called |-> TRUE, name |-> name,
              handler |-> IF registered THEN h ELSE "none",
              threw |-> e.threw, result |-> e.result]
  /\ UNCHANGED << excludeActions, actions >>
  /\ UNCHANGED nonCtlVars

NextController ==
  \/ \E name \in DefaultActions \cup CustomActions : registerAction(name)
  \/ \E name \in ActionNames, h \in HandlerOutcomes : ExecuteAction(name, h)

SpecController == InitController /\ [][NextController]_vars

(* --------------------------- element geometry -------------------------- *)

\* the longest element list handed to an operation
MaxElems == 3

\* an InteractiveElement: its rect, weight, zIndex and index (id tells the
\* objects apart; rect.x and rect.y are rect.left and rect.top)
Elem(id, left, top, width, height, weight, zIndex) ==
  [id |-> id, left |-> left, top |-> top, width |-> width, height |-> height,
   weight |-> weight, zIndex |-> zIndex, index |-> 2 * id]

\* The detections the operations are tried on: three 10x10 boxes on a
\* staircase (tops 0, 15, 30; lefts 40, 20, 0), two wide boxes and a heavier
\* box inside both of them, two tall boxes one pixel apart of which the
\* second is heavier, and a box of no width.
ElementPool ==
  { Elem(1, 40, 0, 10, 10, 1, 0),
    Elem(2, 20, 15, 10, 10, 1, 0),
    Elem(3, 0, 30, 10, 10, 1, 0),
    Elem(4, 102, 0, 16, 10, 1, 0),
    Elem(5, 100, 0, 12, 10, 1, 0),
    Elem(6, 102, 0, 10, 10, 2, 0),
    Elem(7, 60, 50, 10, 22, 1, 0),
    Elem(8, 61, 50, 10, 22, 2, 0),
    Elem(9, 200, 60, 0, 10, 1, 0) }

\* the lists of at most n distinct pool elements, in every order
ElementLists(n) ==
  UNION { { s \in [1..k -> ElementPool] :
              \A i, j \in 1..k : i # j => s[i].id # s[j].id } : k \in 0..n }

\* Rect of an element: left, top, right, bottom, width, height
RectOf(e) ==
  [left |-> e.left, top |-> e.top, right |-> e.left + e.width,
   bottom |-> e.top + e.height, width |-> e.width, height |-> e.height]

MaxOf(a, b) == IF a >= b THEN a ELSE b
MinOf(a, b) == IF a <= b THEN a ELSE b

\* a ratio num/den, and the number 0.0
Ratio(num, den) == [num |-> num, den |-> den]
Zero == Ratio(0, 1)

\* calculateIou (IndexTs): the areas are width * height
calculateIouIndexTs(rect1, rect2) ==
  LET intersectLeft == MaxOf(rect1.left, rect2.left)
      intersectTop == MaxOf(rect1.top, rect2.top)
      intersectRight == MinOf(rect1.right, rect2.right)
      intersectBottom == MinOf(rect1.bottom, rect2.bottom)
      intersectArea ==
        (intersectRight - intersectLeft) * (intersectBottom - intersectTop)
      area1 == rect1.width * rect1.height
      area2 == rect2.width * rect2.height
      unionArea == area1 + area2 - intersectArea
  IN IF intersectRight < intersectLeft \/ intersectBottom < intersectTop
       THEN Zero
       ELSE IF unionArea > 0 THEN Ratio(intersectArea, unionArea) ELSE Zero

\* calculateIOU (tsvariant): the areas come from the edges
calculateIOUTsvariant(rect1, rect2) ==
  LET intersectLeft == MaxOf(rect1.left, rect2.left)
      intersectTop == MaxOf(rect1.top, rect2.top)
      intersectRight == MinOf(rect1.right, rect2.right)
      intersectBottom == MinOf(rect1.bottom, rect2.bottom)
      area1 == (rect1.right - rect1.left) * (rect1.bottom - rect1.top)
      area2 == (rect2.right - rect2.left) * (rect2.bottom - rect2.top)
      intersectionArea ==
        (intersectRight - intersectLeft) * (intersectBottom - intersectTop)
      unionArea == area1 + area2 - intersectionArea
  IN IF intersectRight < intersectLeft \/ intersectBottom < intersectTop
       THEN Zero
       ELSE IF unionArea > 0 THEN Ratio(intersectionArea, unionArea) ELSE Zero

\* the intersection over the first rect's area in place of the union
calculateIouOverFirst(im, rect1, rect2) ==
  LET r == calculateIouIndexTs(rect1, rect2)
      area1 == rect1.width * rect1.height
  IN IF r.num = 0 \/ area1 = 0 THEN Zero ELSE Ratio(r.num, area1)

calculateIou(im, rect1, rect2) ==
  IF im = "IndexTs" THEN calculateIouIndexTs(rect1, rect2)
  ELSE calculateIOUTsvariant(rect1, rect2)

\* iouThreshold = 0.7, as tenths
IouThresholdTenths == 7

\* iou > iouThreshold
AboveThreshold(r) == r.num * 10 > IouThresholdTenths * r.den

\* isFullyContained(rect1, rect2): rect1 lies within rect2, edges included
isFullyContained(rect1, rect2) ==
  /\ rect1.left >= rect2.left
  /\ rect1.right <= rect2.right
  /\ rect1.top >= rect2.top
  /\ rect1.bottom <= rect2.bottom

Area(e) == e.width * e.height

\* ROW_THRESHOLD of sortElementsByPosition
ROW_THRESHOLD == 20

Abs(n) == IF n < 0 THEN 0 - n ELSE n

\* the comparators handed to Array.prototype.sort: "priority" of
\* filterOverlappingElements, "position" of IndexTs sortElementsByPosition,
\* "y" and "x" of tsvariant sortElementsByPosition
Compare(kind, a, b) ==
  CASE kind = "priority" ->
         IF Area(b) # Area(a) THEN Area(b) - Area(a) ELSE b.weight - a.weight
    [] kind = "position" ->
         IF Abs(a.top - b.top) > ROW_THRESHOLD THEN a.top - b.top
         ELSE a.left - b.left
    [] kind = "y" -> a.top - b.top
    [] kind = "x" -> a.left - b.left

\* the comparator orders the elements of s consistently (a total preorder)
Consistent(kind, s) ==
  \A i, j, k \in 1..Len(s) :
    (Compare(kind, s[i], s[j]) <= 0 /\ Compare(kind, s[j], s[k]) <= 0)
      => Compare(kind, s[i], s[k]) <= 0

RECURSIVE InsertSorted(_, _, _, _)
\* e inserted into the sorted list s behind every element not after it
InsertSorted(kind, s, e, i) ==
  IF i = 0 \/ Compare(kind, s[i], e) <= 0
    THEN SubSeq(s, 1, i) \o << e >> \o SubSeq(s, i + 1, Len(s))
    ELSE InsertSorted(kind, s, e, i - 1)

RECURSIVE StableSort(_, _)
\* Array.prototype.sort with a consistent comparator: sorted, equal elements
\* in their input order
StableSort(kind, s) ==
  IF Len(s) <= 1 THEN s
  ELSE LET rest == StableSort(kind, SubSeq(s, 1, Len(s) - 1))
       IN InsertSorted(kind, rest, s[Len(s)], Len(rest))

\* the orders of s
Orders(s) ==
  { [i \in 1..Len(s) |-> s[p[i]]] :
      p \in { q \in [1..Len(s) -> 1..Len(s)] :
                \A i, j \in 1..Len(s) : i # j => q[i] # q[j] } }

\* Array.prototype.sort: with an inconsistent comparator the order is
\* implementation-defined
SortOutcomes(kind, s) ==
  IF Consistent(kind, s) THEN { StableSort(kind, s) } ELSE Orders(s)

\* splice(i, 1)
RemoveAt(s, i) == SubSeq(s, 1, i - 1) \o SubSeq(s, i + 1, Len(s))

RECURSIVE ScanKeptIndexTs(_, _, _)
\* the inner loop of the pass that builds finalFiltered: current against the
\* kept elements from the last to the first
ScanKeptIndexTs(current, finalFiltered, i) ==
  IF i = 0 THEN [overlapsExisting |-> FALSE, kept |-> finalFiltered]
  ELSE
    LET existing == finalFiltered[i]
        r == calculateIouIndexTs(RectOf(current), RectOf(existing))
    IN IF AboveThreshold(r)
         THEN [overlapsExisting |-> TRUE, kept |-> finalFiltered]
       ELSE IF isFullyContained(RectOf(current), RectOf(existing))
         THEN [overlapsExisting |-> TRUE, kept |-> finalFiltered]
       ELSE IF isFullyContained(RectOf(existing), RectOf(current))
         THEN ScanKeptIndexTs(current, RemoveAt(finalFiltered, i), i - 1)
       ELSE ScanKeptIndexTs(current, finalFiltered, i - 1)

RECURSIVE KeepIndexTs(_, _, _)
\* elements.forEach of that pass, from element k on
KeepIndexTs(elements, k, finalFiltered) ==
  IF k > Len(elements) THEN finalFiltered
  ELSE
    LET r == ScanKeptIndexTs(elements[k], finalFiltered, Len(finalFiltered))
    IN KeepIndexTs(elements, k + 1,
         IF r.overlapsExisting THEN r.kept
         ELSE Append(r.kept, elements[k]))

\* filterOverlappingElements (IndexTs): the first pass fills a list that is
\* never returned; the result is finalFiltered
filterOverlappingElementsIndexTs(elements) ==
  IF Len(elements) = 0 THEN << >>
  ELSE KeepIndexTs(StableSort("priority", elements), 1, << >>)

RECURSIVE ScanKeptTsvariant(_, _, _)
\* the inner loop of tsvariant: current against the kept elements from the
\* first on
ScanKeptTsvariant(current, filteredElements, i) ==
  IF i > Len(filteredElements)
    THEN [shouldAdd |-> TRUE, kept |-> filteredElements]
  ELSE
    LET existing == filteredElements[i]
        r == calculateIOUTsvariant(RectOf(current), RectOf(existing))
    IN IF AboveThreshold(r)
         THEN [shouldAdd |-> FALSE, kept |-> filteredElements]
       ELSE IF isFullyContained(RectOf(current), RectOf(existing))
         THEN IF existing.weight >= current.weight
                 /\ existing.zIndex = current.zIndex
                THEN [shouldAdd |-> FALSE, kept |-> filteredElements]
              ELSE IF 2 * Area(current) >= Area(existing)
                THEN [shouldAdd |-> TRUE,
                      kept |-> RemoveAt(filteredElements, i)]
              ELSE ScanKeptTsvariant(current, filteredElements, i + 1)
       ELSE ScanKeptTsvariant(current, filteredElements, i + 1)

RECURSIVE KeepTsvariant(_, _, _)
\* for (const current of sortedElements), from element k on
KeepTsvariant(sortedElements, k, filteredElements) ==
  IF k > Len(sortedElements) THEN filteredElements
  ELSE
    LET r == ScanKeptTsvariant(sortedElements[k], filteredElements, 1)
    IN KeepTsvariant(sortedElements, k + 1,
         IF r.shouldAdd THEN Append(r.kept, sortedElements[k]) ELSE r.kept)

\* filterOverlappingElements (tsvariant)
filterOverlappingElementsTsvariant(elements) ==
  IF Len(elements) = 0 THEN << >>
  ELSE KeepTsvariant(StableSort("priority", elements), 1, << >>)

filterOverlappingElements(im, elements) ==
  IF im = "IndexTs" THEN filterOverlappingElementsIndexTs(elements)
  ELSE filterOverlappingElementsTsvariant(elements)

\* the identity in place of the index assignment
assignIndicesKeep(s) == s

\* index: index over the sorted list (the first element gets 0)
assignIndices(s) == [i \in 1..Len(s) |-> [s[i] EXCEPT !.index = i - 1]]

\* sortElementsByPosition (IndexTs): one sort by the row comparator, whose
\* order over a staircase of elements is the engine's choice
sortElementsByPositionIndexTs(elements) ==
  IF Len(elements) = 0 THEN { << >> }
  ELSE { assignIndices(s) : s \in SortOutcomes("position", elements) }

RECURSIVE GroupRows(_, _, _, _)
\* the rows of sortedByY from element k on: an element joins currentRow when
\* it is within ROW_THRESHOLD of the row's last element
GroupRows(sortedByY, k, rows, currentRow) ==
  IF k > Len(sortedByY)
    THEN IF Len(currentRow) > 0 THEN Append(rows, currentRow) ELSE rows
  ELSE
    LET element == sortedByY[k]
    IN IF Len(currentRow) = 0
         THEN GroupRows(sortedByY, k + 1, rows, << element >>)
       ELSE IF Abs(element.top - currentRow[Len(currentRow)].top)
                 <= ROW_THRESHOLD
         THEN GroupRows(sortedByY, k + 1, rows, Append(currentRow, element))
       ELSE GroupRows(sortedByY, k + 1, Append(rows, currentRow),
                      << element >>)

RECURSIVE FlatMap(_, _)
\* rows.flatMap(row => row), from row k on, each row sorted by x
FlatMap(rows, k) ==
  IF k > Len(rows) THEN << >>
  ELSE StableSort("x", rows[k]) \o FlatMap(rows, k + 1)

\* sortElementsByPosition (tsvariant): rows by y, each row by x
sortElementsByPositionTsvariant(elements) ==
  IF Len(elements) = 0 THEN { << >> }
  ELSE { assignIndices(
           FlatMap(GroupRows(StableSort("y", elements), 1, << >>, << >>),
                   1)) }

\* a sort by left edge alone in place of the sort by rows
sortElementsByPositionByLeft(im, elements) ==
  { assignIndices(StableSort("x", elements)) }

\* the lists sortElementsByPosition can return
sortElementsByPosition(im, elements) ==
  IF im = "IndexTs" THEN sortElementsByPositionIndexTs(elements)
  ELSE sortElementsByPositionTsvariant(elements)

\* combineAndFilterElements(browserElements, cvElements): the lists it can
\* return
combineAndFilterElements(im, browser, cv) ==
  sortElementsByPosition(im, filterOverlappingElements(im, browser \o cv))

(* ------------------- the element utilities and Browser ----------------- *)

\* no Agent and no Controller call in play
AgentUnused ==
  /\ impl \in Impls
  /\ pc = "idle"
  /\ mode = "none"
  /\ maxSteps = 0
  /\ timeout = FALSE
  /\ closeContext = TRUE
  /\ stepCount = 0
  /\ prevStep = 0
  /\ isDone = FALSE
  /\ actionResult = NoResult
  /\ messages = << >>
  /\ chunks = << >>
  /\ ret = "none"
  /\ outSteps = 0
  /\ sp = "none"
  /\ abandoned = FALSE
  /\ browserRef = FALSE
  /\ browserOpen = FALSE
  /\ bstate = "null"
  /\ closes = 0
  /\ saved = NoSaved
  /\ runs = 0
  /\ calls = 0
  /\ started = 0
  /\ returned = 0
  /\ stepLog = NoStep
  /\ excludeActions = {}
  /\ actions = DefaultActions
  /\ exec = NoExec

\* a page whose script reports browserElements and whose detector, when one
\* is configured, reports cvElements
InitFusion ==
  /\ AgentUnused
  /\ \E s \in ElementLists(MaxElems), k \in 0..MaxElems :
       /\ k <= Len(s)
       /\ browserElements = SubSeq(s, 1, k)
       /\ cvElements = SubSeq(s, k + 1, Len(s))
  /\ fusionOp = "none"
  /\ fusionIn = << >>
  /\ fusionOut = << >>
  /\ iou = NoIou
  /\ interactiveElements = << >>
  /\ detector = FALSE
  /\ click = NoClick
  /\ DetectorIdle
  /\ omitsInput = FALSE
  /\ ParseIdle
  /\ ListingIdle

\* const allElements = [...browserElements, ...cvElements]
allElements == browserElements \o cvElements

\* The objects of a list handed to sortElementsByPosition, after the call.
\* tsvariant writes sortedElements[i].index = i into the objects themselves,
\* which the caller's lists share; IndexTs returns copies ({...element,
\* index}).
elementsAfter(im, inputs, result) ==
  [i \in 1..Len(inputs) |->
     IF im = "tsvariant" /\ \E p \in 1..Len(result) : result[p].id = inputs[i].id
     THEN [inputs[i] EXCEPT
             !.index = (CHOOSE p \in 1..Len(result) :
                          result[p].id = inputs[i].id) - 1]
     ELSE inputs[i]]

\* the caller's two lists once a call on their elements has returned result
ListsAfter(result) ==
  LET after == elementsAfter(impl, allElements, result)
  IN /\ browserElements' = SubSeq(after, 1, Len(browserElements))
     /\ cvElements' = SubSeq(after, Len(browserElements) + 1, Len(after))

\* filterOverlappingElements(allElements)
FilterOverlappingElements ==
  /\ fusionOp = "none"
  /\ fusionOp' = "filter"
  /\ fusionIn' = allElements
  /\ fusionOut' = filterOverlappingElements(impl, allElements)
  /\ UNCHANGED << browserElements, cvElements, iou, interactiveElements,
                  detector, click >>
  /\ UNCHANGED nonFusionVars

\* filterOverlappingElements applied to what it returned
FilterAgain ==
  /\ fusionOp = "filter"
  /\ fusionOp' = "refilter"
  /\ fusionIn' = fusionOut
  /\ fusionOut' = filterOverlappingElements(impl, fusionOut)
  /\ UNCHANGED << browserElements, cvElements, iou, interactiveElements,
                  detector, click >>
  /\ UNCHANGED nonFusionVars

\* sortElementsByPosition(allElements)
SortElementsByPosition ==
  /\ fusionOp = "none"
  /\ fusionOp' = "sort"
  /\ fusionIn' = allElements
  /\ fusionOut' \in sortElementsByPosition(impl, allElements)
  /\ ListsAfter(fusionOut')
  /\ UNCHANGED << iou, interactiveElements, detector, click >>
  /\ UNCHANGED nonFusionVars

\* combineAndFilterElements(browserElements, cvElements)
CombineAndFilterElements ==
  /\ fusionOp = "none"
  /\ fusionOp' = "combine"
  /\ fusionIn' = allElements
  /\ fusionOut' \in combineAndFilterElements(impl, browserElements, cvElements)
  /\ ListsAfter(fusionOut')
  /\ UNCHANGED << iou, interactiveElements, detector, click >>
  /\ UNCHANGED nonFusionVars

\* calculateIou(rect1, rect2) and calculateIou(rect2, rect1) on the rects of
\* two of the elements (i = j: a rect against itself)
CalculateIou(i, j) ==
  /\ fusionOp = "none"
  /\ i \in 1..Len(allElements)
  /\ j \in 1..Len(allElements)
  /\ fusionOp' = "iou"
  /\ iou' = [called |-> TRUE,
             rect1 |-> RectOf(allElements[i]),
             rect2 |-> RectOf(allElements[j]),
             value |-> calculateIou(impl, RectOf(allElements[i]),
                                    RectOf(allElements[j])),
             swapped |-> calculateIou(impl, RectOf(allElements[j]),
                                      RectOf(allElements[i]))]
  /\ UNCHANGED << browserElements, cvElements, fusionIn, fusionOut,
                  interactiveElements, detector, click >>
  /\ UNCHANGED nonFusionVars

\* interactiveElements[element.index] = element, for each element in order
KeyedByIndex(elements) ==
  [k \in { elements[i].index : i \in 1..Len(elements) } |->
     elements[LastOf({ i \in 1..Len(elements) : elements[i].index = k })]]

\* Browser.fetchState / Browser._updateState: with a detector the elements
\* are those of combineAndFilterElements, without one those of the page
\* script as reported; a capture that fails keeps the last state
FetchState(withDetector, ok) ==
  /\ fusionOp = "none"
  /\ fusionOp' = IF ok THEN "capture" ELSE "capture_failed"
  /\ fusionIn' = IF withDetector THEN allElements ELSE browserElements
  /\ IF ~ok THEN fusionOut' = fusionOut
     ELSE IF withDetector
       THEN fusionOut' \in
              combineAndFilterElements(impl, browserElements, cvElements)
     ELSE fusionOut' = browserElements
  /\ interactiveElements' =
       IF ok THEN KeyedByIndex(fusionOut') ELSE interactiveElements
  /\ detector' = withDetector
  /\ IF ok /\ withDetector THEN ListsAfter(fusionOut')
     ELSE UNCHANGED << browserElements, cvElements >>
  /\ UNCHANGED << iou, click >>
  /\ UNCHANGED nonFusionVars

\* String(index) of the values click_element is called with: 0, 2, -2, 1.5
\* and a word
IndexTexts ==
  { << "0" >>, << "2" >>, << "-", "2" >>, << "1", ".", "5" >>, << "x" >> }

Digits == << "0", "1", "2", "3", "4", "5", "6", "7", "8", "9" >>

IsDigit(c) == \E d \in 1..10 : Digits[d] = c

DigitValue(c) == (CHOOSE d \in 1..10 : Digits[d] = c) - 1

RECURSIVE parseInt(_)
\* parseInt of a string of digits
parseInt(str) ==
  IF Len(str) = 0 THEN 0
  ELSE 10 * parseInt(SubSeq(str, 1, Len(str) - 1)) + DigitValue(str[Len(str)])

\* String(index).replace(/\D/g, '')
cleanedIndexStr(str) == SelectSeq(str, IsDigit)

\* what the page and the tabs do once the handler reaches the click
ClickOutcomes == { "ok", "newtab", "fail", "fallback" }

\* the click_element handler on the captured state: the ActionResult (error
\* kind, whether content is set, and the index its message names, -1 when
\* it names none) and the browser interactions made
clickElement(im, str, elements, outcome) ==
  LET cleaned == cleanedIndexStr(str)
      cleanedIndex == parseInt(cleaned)
  IN IF cleaned = << >>
       THEN [error |-> "not_a_number", content |-> FALSE, named |-> 0 - 1,
             did |-> << >>]
     ELSE IF cleanedIndex \notin DOMAIN elements
       THEN [error |-> "does_not_exist", content |-> FALSE,
             named |-> cleanedIndex, did |-> << >>]
     ELSE IF outcome = "ok"
       THEN [error |-> "none", content |-> TRUE, named |-> cleanedIndex,
             did |-> << "move", "click" >>]
     ELSE IF outcome = "newtab"
       THEN [error |-> "none", content |-> TRUE, named |-> cleanedIndex,
             did |-> << "move", "click", "switchToTab" >>]
     ELSE IF im = "tsvariant" /\ outcome = "fallback"
       THEN [error |-> "none", content |-> TRUE, named |-> cleanedIndex,
             did |-> << "move", "click" >>]
     ELSE \* IndexTs: {error}; tsvariant: {error, content: "Click attempt
          \* failed, you might need to try a different approach"}
          [error |-> "failed", content |-> (im = "tsvariant"),
           named |-> IF im = "tsvariant" THEN cleanedIndex ELSE 0 - 1,
           did |-> << "move" >>]

\* click_element({index}) on a Browser whose state was captured
ClickElement(str, outcome) ==
  /\ fusionOp = "capture"
  /\ fusionOp' = "click"
  /\ click' = [called |-> TRUE, index |-> str]
                @@ clickElement(impl, str, interactiveElements, outcome)
  /\ UNCHANGED << browserElements, cvElements, fusionIn, fusionOut, iou,
                  interactiveElements, detector >>
  /\ UNCHANGED nonFusionVars

NextFusion ==
  \/ FilterOverlappingElements
  \/ FilterAgain
  \/ SortElementsByPosition
  \/ CombineAndFilterElements
  \/ \E i, j \in 1..MaxElems : CalculateIou(i, j)
  \/ \E withDetector \in BOOLEAN, ok \in BOOLEAN : FetchState(withDetector, ok)
  \/ \E str \in IndexTexts, outcome \in ClickOutcomes : ClickElement(str, outcome)

SpecFusion == InitFusion /\ [][NextFusion]_vars

(* ------------------------------ the detector --------------------------- *)

\* the longest list of detections an endpoint response holds
MaxDetections == 2

\* maxAttempts of retryDetection, as detectFromImage passes it
MaxAttempts == 3

\* 2 to the n
RECURSIVE Pow2(_)
Pow2(n) == IF n <= 0 THEN 1 ELSE 2 * Pow2(n - 1)

\* a fixed delay in place of the doubling one
delayMsFixed(attempt) == 500

\* const delayMs = 500 * Math.pow(2, attempt - 1)
delayMs(attempt) == 500 * Pow2(attempt - 1)

\* callCVEndpoint / callSheetsEndpoint on a response whose boxes are those of
\* the pool elements of the list: element i gets index i, weight 1, zIndex 0
ElementsOfDetections(predictions) ==
  [i \in 1..Len(predictions) |->
     [predictions[i] EXCEPT !.index = i - 1, !.weight = 1, !.zIndex = 0]]

\* new Detector(cvEndpointName, sheetsEndpointName): the detector of
\* tsvariant (the one of IndexTs is a mock that calls no endpoint)
InitDetector ==
  /\ AgentUnused
  /\ impl = "tsvariant"
  /\ FusionIdle
  /\ DetectorIdle
  /\ omitsInput = FALSE
  /\ ParseIdle
  /\ ListingIdle

\* detectFromImage(imageB64, detectSheets): the first endpoint call is sent
DetectFromImage(sheets) ==
  /\ detPc = "idle"
  /\ detPc' = "call"
  /\ detSheets' = sheets
  /\ UNCHANGED << detAttempt, detCalls, detDelays, detResult >>
  /\ UNCHANGED nonDetVars

\* the endpoint call in flight returns a response that parses
EndpointReturns(predictions) ==
  /\ detPc = "call"
  /\ detPc' = "done"
  /\ detCalls' = Append(detCalls, "ok")
  /\ detResult' = [kind |-> "returned",
                   elements |-> ElementsOfDetections(predictions)]
  /\ UNCHANGED << detSheets, detAttempt, detDelays >>
  /\ UNCHANGED nonDetVars

\* the endpoint call in flight throws (the call, the JSON or the schema):
\* the catch block calls retryDetection(attempt + 1), which gives up at
\* maxAttempts and otherwise starts its delay
EndpointThrows ==
  LET attempt == detAttempt + 1
  IN
  /\ detPc = "call"
  /\ detCalls' = Append(detCalls, "fail")
  /\ detAttempt' = attempt
  /\ IF attempt >= MaxAttempts
       THEN /\ detPc' = "done"
            /\ detResult' = [kind |-> "returned", elements |-> << >>]
            /\ UNCHANGED detDelays
       ELSE /\ detPc' = "backoff"
            /\ detDelays' = Append(detDelays, delayMs(attempt))
            /\ UNCHANGED detResult
  /\ UNCHANGED detSheets
  /\ UNCHANGED nonDetVars

\* the delay of retryDetection has passed: the next endpoint call is sent
BackoffElapsed ==
  /\ detPc = "backoff"
  /\ detPc' = "call"
  /\ UNCHANGED << detSheets, detAttempt, detCalls, detDelays, detResult >>
  /\ UNCHANGED nonDetVars

NextDetector ==
  \/ \E sheets \in BOOLEAN : DetectFromImage(sheets)
  \/ \E predictions \in ElementLists(MaxDetections) :
       EndpointReturns(predictions)
  \/ EndpointThrows
  \/ BackoffElapsed

SpecDetector == InitDetector /\ [][NextDetector]_vars

(* ----------------------- parsing the LLM's output ---------------------- *)

\* what a field of the JSON object holds: nothing, the empty string, a
\* non-empty string, or a non-zero number
FieldValues == {"absent", "empty", "text", "number"}

IsString(v) == v \in {"empty", "text"}

\* JavaScript truthiness of a field value
Truthy(v) == v \in {"text", "number"}

\* response.content: text that is no JSON at all, or a JSON object (keys in
\* the order thought, action, summary), inside <output> tags, inside <o>
\* tags or bare
Responses ==
  { [tags |-> t, json |-> "broken"] : t \in {"output", "o", "bare"} }
  \cup
  { [tags |-> t, json |-> "object", thought |-> th, action |-> "absent",
     name |-> "absent", params |-> "absent", summary |-> su] :
      t \in {"output", "o", "bare"}, th \in FieldValues,
      su \in {"absent", "text"} }
  \cup
  { [tags |-> t, json |-> "object", thought |-> th, action |-> "object",
     name |-> n, params |-> pa, summary |-> su] :
      t \in {"output", "o", "bare"}, th \in FieldValues, n \in FieldValues,
      pa \in {"absent", "map"}, su \in {"absent", "text"} }

Rejected == [kind |-> "threw"]

Parsed(thought, name, params, summary) ==
  [kind |-> "parsed", thought |-> thought, name |-> name, params |-> params,
   summary |-> summary]

\* generateAction of IndexTs, the extraction: the text inside <output> or <o>
\* tags, else a match of /\{\s*"thought"[\s\S]*\}/
ExtractsIndexTs(r) ==
  \/ r.tags \in {"output", "o"}
  \/ r.json = "object" /\ r.thought # "absent"

\* generateAction of IndexTs: JSON.parse, then AgentLLMOutputSchema.parse
\* (thought: z.string(), action: {name: z.string(), params: z.record(z.any())},
\* summary: z.string().optional())
generateActionIndexTs(r) ==
  IF ~ExtractsIndexTs(r) \/ r.json # "object" THEN Rejected
  ELSE IF ~IsString(r.thought) THEN Rejected
  ELSE IF r.action = "absent" THEN Rejected
  ELSE IF ~IsString(r.name) THEN Rejected
  ELSE IF r.params = "absent" THEN Rejected
  ELSE Parsed(r.thought, r.name, r.params, r.summary)

\* _generateAction of tsvariant: JSON.parse, then the tests !outputObj.thought
\* and !outputObj.action || !outputObj.action.name, then params || {} and
\* summary || ""
generateActionTsvariant(r) ==
  IF r.json # "object" THEN Rejected
  ELSE IF ~Truthy(r.thought) THEN Rejected
  ELSE IF r.action = "absent" \/ ~Truthy(r.name) THEN Rejected
  ELSE Parsed(r.thought, r.name,
              IF r.params = "absent" THEN "emptymap" ELSE r.params,
              IF r.summary = "absent" THEN "empty" ELSE r.summary)

generateAction(im, r) ==
  IF im = "IndexTs" THEN generateActionIndexTs(r)
  ELSE generateActionTsvariant(r)

\* the LLM has answered with any of the responses
InitParse ==
  /\ AgentUnused
  /\ FusionIdle
  /\ DetectorIdle
  /\ omitsInput = FALSE
  /\ llmResponse \in Responses
  /\ llmOutput = NoOutput
  /\ ListingIdle

\* generateAction(messages), from the LLM's answer on
GenerateAction ==
  /\ llmOutput = NoOutput
  /\ llmOutput' = generateAction(impl, llmResponse)
  /\ UNCHANGED << agentVars, ctlVars, fusionVars, detVars, callerVars,
                  llmResponse, listVars >>

NextParse == GenerateAction

SpecParse == InitParse /\ [][NextParse]_vars

(* ------------------ the element listing of a state message ------------- *)

\* the number of keys a snapshot's interactive elements can have
MaxKeys == 3

\* what a key of state.interactiveElements holds: nothing, a page element,
\* or a grid helper whose browser agent id starts with row_ or column_
SlotValues == {"absent", "element", "row_", "column_"}

\* state.interactiveElements: slot k + 1 is key k
Snapshots == [1..MaxKeys -> SlotValues]

RECURSIVE listedIndexTs(_, _)
\* addCurrentStateMessage of part_001: one line per key of
\* state.interactive_elements, in the order of Object.keys (ascending)
listedIndexTs(snap, n) ==
  IF n = 0 THEN << >>
  ELSE IF snap[n] = "absent" THEN listedIndexTs(snap, n - 1)
  ELSE Append(listedIndexTs(snap, n - 1), n - 1)

RECURSIVE listedTsvariant(_, _)
\* addCurrentStateMessage of message_manager.ts: one line per value of
\* state.interactiveElements whose browserAgentId starts with neither row_
\* nor column_
listedTsvariant(snap, n) ==
  IF n = 0 THEN << >>
  ELSE IF snap[n] \in {"absent", "row_", "column_"}
       THEN listedTsvariant(snap, n - 1)
  ELSE Append(listedTsvariant(snap, n - 1), n - 1)

\* the indices the textual listing of a state message names, in order
listed(im, snap) ==
  IF im = "IndexTs" THEN listedIndexTs(snap, Len(snap))
  ELSE listedTsvariant(snap, Len(snap))

\* a captured state with any interactive elements
InitListing ==
  /\ AgentUnused
  /\ FusionIdle
  /\ DetectorIdle
  /\ omitsInput = FALSE
  /\ ParseIdle
  /\ snapshot \in Snapshots
  /\ listing = NoListing

\* addCurrentStateMessage(state): the listing of the message it pushes
AddCurrentStateMessage ==
  /\ ~listing.called
  /\ listing' = [called |-> TRUE, entries |-> listed(impl, snapshot)]
  /\ UNCHANGED << agentVars, ctlVars, fusionVars, detVars, callerVars,
                  parseVars, snapshot >>

NextListing == AddCurrentStateMessage

SpecListing == InitListing /\ [][NextListing]_vars

(* ------------------------------ the agent ------------------------------ *)

Next ==
  \/ \E m \in {"run", "stream"}, ms \in 0..MaxSteps,
        useSaved \in BOOLEAN, tmo \in BOOLEAN, usePrev \in BOOLEAN,
        launchOk \in BOOLEAN :
       StartIndexTs(m, ms, useSaved, tmo, usePrev, launchOk)
  \/ \E m \in {"run", "stream"}, ms \in 0..MaxSteps, hasPrompt \in BOOLEAN,
        useSaved \in BOOLEAN, tmo \in BOOLEAN, cc \in BOOLEAN,
        usePrev \in BOOLEAN, cap \in {"ok", "fail"} :
       StartTsvariant(m, ms, hasPrompt, useSaved, tmo, cc, usePrev, cap)
  \/ BeginStep
  \/ \E cap \in {"ok", "fail"} : StateCaptured(cap)
  \/ \E llm \in {"ok", "bad"} : LLMReturns(llm)
  \/ \E registered \in BOOLEAN, h \in HandlerOutcomes \cup {"none"},
        elapsed \in BOOLEAN :
       ActionReturns(registered, h, elapsed)
  \/ TimerFires
  \/ Finish

Spec == Init /\ [][Next]_vars

\* The agent under the assumption that every step() call eventually returns
\* or raises (each await of step() settles), that the loops of run and
\* runStream go on to their next iteration, and that the code after the loop
\* runs.  The timer is under no such assumption.
Fairness ==
  /\ WF_vars(BeginStep)
  /\ WF_vars(\E cap \in {"ok", "fail"} : StateCaptured(cap))
  /\ WF_vars(\E llm \in {"ok", "bad"} : LLMReturns(llm))
  /\ WF_vars(\E registered \in BOOLEAN, h \in HandlerOutcomes \cup {"none"},
                elapsed \in BOOLEAN :
               ActionReturns(registered, h, elapsed))
  /\ WF_vars(Finish)

SpecLive == Init /\ [][Next]_vars /\ Fairness

(* ------------------- a caller that may pass no input ------------------- *)

\* the caller of a fresh agent settles on passing neither a prompt nor an
\* agent state to run and runStream
CallerOmitsInput ==
  /\ pc = "idle"
  /\ runs = 0
  /\ ~omitsInput
  /\ omitsInput' = TRUE
  /\ UNCHANGED << agentVars, ctlVars, fusionVars, detVars, parseVars,
                  listVars >>

\* run and runStream as that caller invokes them; the loop as before.
\* IndexTs takes prompt as it comes (setup and setupMessages never test it);
\* tsvariant is passed prompt = null and agentState = null.
NextStart ==
  \/ CallerOmitsInput
  \/ \E m \in {"run", "stream"}, ms \in 0..MaxSteps,
        useSaved \in BOOLEAN, tmo \in BOOLEAN, usePrev \in BOOLEAN,
        launchOk \in BOOLEAN :
       /\ omitsInput => (~useSaved /\ ~usePrev)
       /\ StartIndexTs(m, ms, useSaved, tmo, usePrev, launchOk)
  \/ \E m \in {"run", "stream"}, ms \in 0..MaxSteps, hasPrompt \in BOOLEAN,
        useSaved \in BOOLEAN, tmo \in BOOLEAN, cc \in BOOLEAN,
        usePrev \in BOOLEAN, cap \in {"ok", "fail"} :
       /\ omitsInput <=> (~hasPrompt /\ ~useSaved)
       /\ StartTsvariant(m, ms, hasPrompt, useSaved, tmo, cc, usePrev, cap)
  \/ BeginStep
  \/ \E cap \in {"ok", "fail"} : StateCaptured(cap)
  \/ \E llm \in {"ok", "bad"} : LLMReturns(llm)
  \/ \E registered \in BOOLEAN, h \in HandlerOutcomes \cup {"none"},
        elapsed \in BOOLEAN :
       ActionReturns(registered, h, elapsed)
  \/ TimerFires
  \/ Finish

SpecStart == Init /\ [][NextStart]_vars

(* --------------------- step() called by the caller --------------------- *)

\* the agent was never set up, or its last invocation closed the browser
NotReady ==
  \/ pc = "idle" /\ runs = 0
  \/ pc = "end" /\ closes > 0 /\ ~browserOpen

\* step() called directly on an agent that is not Ready, with no previous
\* result, from the call to its return or throw.  IndexTs: the test of
\* isSetup and browser throws.  tsvariant: no test; updateState() launches
\* the browser when there is no page and captures, the LLM is called with
\* the history as it is, the assistant message is added and the action
\* dispatched.
DirectStep(cap, llm, registered, h) ==
  LET st == Captured(cap, bstate)
      sent == getMessages(impl, messages)
      log(phase) == [phase |-> phase, before |-> messages,
                     hadPrev |-> FALSE, prev |-> "none"]
  IN
  /\ NotReady
  /\ sp = "none"
  /\ calls < MaxCalls
  /\ calls' = calls + 1
  /\ << registered, h >> \in DispatchCases
  /\ IF impl = "IndexTs"
     THEN /\ ~browserRef
          /\ stepLog' = log("guard")
          /\ UNCHANGED << messages, bstate, browserOpen >>
     ELSE IF cap = "fail" /\ bstate = "null"
     THEN /\ stepLog' = log("capture")
          /\ UNCHANGED << messages, bstate, browserOpen >>
     ELSE /\ bstate' = st
          /\ browserOpen' = (browserOpen \/ cap = "ok")
          /\ IF llm = "bad"
             THEN /\ stepLog' = log("llm")
                  /\ messages' = removeLastMessage(sent)
             ELSE /\ stepLog' = log("returned")
                  /\ messages' =
                       addMessageFromModelOutput(impl, sent, FALSE,
                                                 st = "captured")
  /\ UNCHANGED << impl, pc, mode, maxSteps, timeout, closeContext, stepCount,
                  prevStep, isDone, actionResult, chunks, ret, outSteps, sp,
                  abandoned, browserRef, closes, saved, runs, started,
                  returned >>
  /\ UNCHANGED nonAgentVars

NextStep ==
  \/ Next
  \/ \E cap \in {"ok", "fail"}, llm \in {"ok", "bad"}, registered \in BOOLEAN,
        h \in HandlerOutcomes \cup {"none"} :
       DirectStep(cap, llm, registered, h)

SpecStep == Init /\ [][NextStep]_vars

(* ------------------------------ properties ----------------------------- *)

\* positions of the chunks of one type in the stream
ChunksOf(t) == {i \in 1..Len(chunks) : chunks[i] = t}

\* the invocation is over
Ended == pc = "end" /\ mode # "none"

\* C1: a stream that yielded a TimeoutChunk yielded exactly one, no StepChunk
\* after it and no FinalOutputChunk.
C1_TimeoutEndsStream ==
  (mode = "stream" /\ timeout /\ ChunksOf("step_timeout") # {}) =>
     /\ Cardinality(ChunksOf("step_timeout")) = 1
     /\ \A i \in ChunksOf("step_timeout"), j \in ChunksOf("step") : j < i
     /\ ChunksOf("final_output") = {}

\* C2: when an invocation that ran its loop has ended (task done, budget
\* exhausted, a step threw, timeout), and the caller did not ask to keep the
\* browser, Browser.close() was called exactly once and the browser is closed.
C2_ClosedExactlyOnce ==
  (Ended /\ closeContext /\ (ret = "output" \/ started > 0)) =>
     (closes = 1 /\ ~browserOpen)

\* C3: executeAction on a registered action whose handler throws returns an
\* ActionResult with an error and isDone false, and does not throw.
C3_HandlerThrowIsResult ==
  (exec.called /\ exec.handler = "throws") =>
     /\ ~exec.threw
     /\ exec.result.tag = "result"
     /\ exec.result.error # ""
     /\ ~exec.result.isDone

\* C4: executeAction on a name without a handler (never registered, or kept
\* out by the exclusion list) returns the "Action <name> not found" error
\* result and does not throw.
C4_UnknownActionIsResult ==
  (exec.called /\ exec.name \notin actions) =>
     /\ ~exec.threw
     /\ exec.result.tag = "result"
     /\ exec.result.error = "notfound"
     /\ ~exec.result.isDone

\* what each message of a history is, in order
Kinds(msgs) == [i \in 1..Len(msgs) |-> msgs[i].kind]

\* C5: after a step whose LLM call or output parsing failed, the history
\* holds the messages it held before the step began, in the same order.
C5_FailedStepRollsBack ==
  (sp = "none" /\ stepLog.phase = "llm") =>
     Kinds(messages) = Kinds(stepLog.before)

\* positions of the messages that still hold the original pair of screenshots
FullOnes(msgs) == {i \in 1..Len(msgs) : msgs[i].full}

\* C6: between steps, at most one message of the history holds the original
\* pair of full-size screenshots and every state message before it holds at
\* most one image.
C6_Compaction ==
  sp = "none" =>
     /\ Cardinality(FullOnes(messages)) <= 1
     /\ \A j \in FullOnes(messages) : \A i \in 1..(j - 1) :
          messages[i].kind \in {"state", "compact"} => messages[i].imgs <= 1

\* positions of the non-system messages that carry a cache marker
Marked(msgs) == {i \in 1..Len(msgs) : NonSystemMarked(msgs[i])}

\* number of marked content blocks among the non-system messages
MarkedBlocks(msgs) ==
  LET RECURSIVE Sum(_)
      Sum(n) == IF n = 0 THEN 0
                ELSE Sum(n - 1)
                       + (IF msgs[n].role = "system" THEN 0 ELSE msgs[n].cache)
  IN Sum(Len(msgs))

\* the step from one state to the next is, or ends with, a getMessages() call
\* on the stored history: step() before the LLM call, getState() for a
\* TimeoutChunk, getState() for the final output
GetMessagesCalled ==
  \/ sp = "upd" /\ sp' = "llm"
  \/ Len(chunks') = Len(chunks) + 1 /\ chunks'[Len(chunks')] = "step_timeout"
  \/ pc # "end" /\ pc' = "end" /\ ret' = "output"

\* the marker that was the last one before the call is the one that is left
LastMarkerKept(before, after) ==
  /\ MarkedBlocks(after) <= 1
  /\ Marked(before) # {} => Marked(after) = {LastOf(Marked(before))}

\* C7: a list getMessages() returned (the one sent to the LLM, the one of a
\* saved agent state) has at most one marked content block outside the
\* system message, and the call keeps the last marker there was.
C7_SingleCacheMarker ==
  /\ []((sp = "llm" => MarkedBlocks(messages) <= 1)
        /\ (saved.has => MarkedBlocks(saved.messages) <= 1))
  /\ [][GetMessagesCalled => LastMarkerKept(messages, messages')]_vars

\* C7 witness: the final getMessages() of a run cleared the marker of the
\* task message and left the one of the later reduced state message.
C7_Witness ==
  /\ impl = "tsvariant"
  /\ pc = "end"
  /\ ret = "output"
  /\ \E i, j \in 1..Len(messages) :
       /\ i < j
       /\ messages[i].kind = "task"
       /\ messages[i].cache = 0
       /\ messages[j].kind = "compact"
       /\ messages[j].cache = 1
       /\ Marked(messages) = {j}

\* C8: when a step awaited by runStream throws, the stream yields a
\* StepChunkError and goes back to the loop condition.
C8_StreamSurvivesStepError ==
  [][(mode = "stream" /\ ~abandoned /\ sp # "none" /\ sp' = "none"
        /\ stepLog'.phase # "returned")
       => (chunks' = Append(chunks, "step_error") /\ pc' = "loop")]_vars

\* runStream ended after its loop ended because the task was done or the
\* step budget was used up
LoopRanOut ==
  /\ Ended
  /\ mode = "stream"
  /\ ret = "output"
  /\ ChunksOf("step_timeout") = {}
  /\ impl = "tsvariant" => stepLog.phase \in {"none", "returned"}

\* exactly one FinalOutputChunk, the last chunk, yielded after the close
FinalChunkAfterClose ==
  /\ ChunksOf("final_output") = {Len(chunks)}
  /\ closes >= 1
  /\ ~browserOpen

Max(a, b) == IF a >= b THEN a ELSE b

\* C11: stepCount never exceeds max(maxSteps, starting count), and an
\* invocation makes at most maxSteps - starting count step() calls (none when
\* maxSteps = 0).
C11_StepBudget ==
  /\ stepCount <= Max(maxSteps, prevStep)
  /\ started <= Remaining(maxSteps, prevStep)
  /\ maxSteps = 0 => (started = 0 /\ sp = "none")

\* C11 witness: a stream resumed at prevStep > 0 used up its budget with
\* fewer than maxSteps steps of its own.
C11_Witness ==
  /\ Ended
  /\ mode = "stream"
  /\ prevStep > 0
  /\ started = maxSteps - prevStep
  /\ started > 0
  /\ stepCount = maxSteps

\* C12: whatever the two input lists and their order, the elements
\* combineAndFilterElements returns carry the indices 0..n-1 in output order.
C12_IndicesContiguous ==
  fusionOp = "combine" =>
    \A i \in 1..Len(fusionOut) : fusionOut[i].index = i - 1

C12_Witness ==
  /\ fusionOp = "combine"
  /\ browserElements # << >>
  /\ cvElements # << >>
  /\ Len(fusionOut) = 2
  /\ Len(fusionIn) = 3
  /\ fusionOut[1].id > fusionOut[2].id

\* the elements of a list, whatever their order
ElementsOf(s) == { s[i] : i \in 1..Len(s) }

\* C13: filterOverlappingElements applied to its own result returns the same
\* elements.
C13_FilterIdempotent ==
  fusionOp = "refilter" =>
    /\ Len(fusionOut) = Len(fusionIn)
    /\ ElementsOf(fusionOut) = ElementsOf(fusionIn)

\* two elements count as one row: their tops differ by at most ROW_THRESHOLD
SameRow(a, b) == Abs(a.top - b.top) <= ROW_THRESHOLD

\* in the list s, every two elements more than ROW_THRESHOLD apart in top
\* come smaller top first
RowsInOrder(s) ==
  \A i, j \in 1..Len(s) :
    (i < j /\ ~SameRow(s[i], s[j])) => s[i].top < s[j].top

\* C14 as stated: in the output of sortElementsByPosition every two elements
\* whose tops differ by more than the row threshold come smaller top first.
C14_RowsNeverInterleave == fusionOp = "sort" => RowsInOrder(fusionOut)

\* the rows of the list s are clear of each other: an element within the
\* threshold of two others puts those two within the threshold as well
RowsSeparated(s) ==
  \A i, j, k \in 1..Len(s) :
    (SameRow(s[i], s[j]) /\ SameRow(s[j], s[k])) => SameRow(s[i], s[k])

\* C14 amended: when the rows of the input are clear of each other, every two
\* output elements whose tops differ by more than the row threshold come
\* smaller top first.
C14_SeparatedRowsInOrder ==
  (fusionOp = "sort" /\ RowsSeparated(fusionIn)) => RowsInOrder(fusionOut)

C14_Witness ==
  /\ fusionOp = "sort"
  /\ RowsSeparated(fusionIn)
  /\ Len(fusionIn) = 3
  /\ ~RowsInOrder(fusionIn)
  /\ \E i, j \in 1..3 : SameRow(fusionIn[i], fusionIn[j]) /\ i # j
  /\ RowsInOrder(fusionOut)

\* C15: in the output of sortElementsByPosition every two elements whose tops
\* differ by at most the row threshold come smaller left first.
C15_LeftToRightInRow ==
  fusionOp = "sort" =>
    \A i, j \in 1..Len(fusionOut) :
      (i < j /\ SameRow(fusionOut[i], fusionOut[j]))
        => fusionOut[i].left <= fusionOut[j].left

\* the ids of the elements of a list
IdsOf(s) == { s[i].id : i \in 1..Len(s) }

\* C16: of two input detections whose IoU is above the threshold, fusion
\* returns exactly one, the one that comes first in priority order (larger
\* area, then higher weight).
C16_OverlapKeepsFirst ==
  fusionOp = "combine" =>
    \A i, j \in 1..Len(fusionIn) :
      (/\ i # j
       /\ AboveThreshold(calculateIou(impl, RectOf(fusionIn[i]),
                                      RectOf(fusionIn[j])))
       /\ Compare("priority", fusionIn[i], fusionIn[j]) < 0)
        => (/\ fusionIn[i].id \in IdsOf(fusionOut)
            /\ fusionIn[j].id \notin IdsOf(fusionOut))

\* two rects share a point
Intersects(rect1, rect2) ==
  /\ MinOf(rect1.right, rect2.right) >= MaxOf(rect1.left, rect2.left)
  /\ MinOf(rect1.bottom, rect2.bottom) >= MaxOf(rect1.top, rect2.top)

\* no two elements of the list intersect (so none contains another)
PairwiseApart(s) ==
  \A i, j \in 1..Len(s) :
    i # j => ~Intersects(RectOf(s[i]), RectOf(s[j]))

\* every two elements of the list within the row threshold come smaller left
\* first
LeftToRight(s) ==
  \A i, j \in 1..Len(s) :
    (i < j /\ SameRow(s[i], s[j])) => s[i].left <= s[j].left

\* C17: on pairwise non-overlapping input fusion returns every input element
\* and no other, rows top to bottom (where the rows of the input are clear of
\* each other) and each row left to right; empty input gives empty output.
C17_ApartInputAllReturnedInOrder ==
  (fusionOp = "combine" /\ PairwiseApart(fusionIn)) =>
    /\ Len(fusionOut) = Len(fusionIn)
    /\ IdsOf(fusionOut) = IdsOf(fusionIn)
    /\ RowsSeparated(fusionIn) => RowsInOrder(fusionOut)
    /\ LeftToRight(fusionOut)

\* C18: the elements of a state captured without a vision detector are
\* filtered: no two of them overlap with IoU above the threshold and none
\* lies fully inside another.
C18_SnapshotFilteredWithoutDetector ==
  (fusionOp = "capture" /\ ~detector) =>
    \A k1, k2 \in DOMAIN interactiveElements :
      k1 # k2 =>
        /\ ~AboveThreshold(
              calculateIou(impl, RectOf(interactiveElements[k1]),
                           RectOf(interactiveElements[k2])))
        /\ ~isFullyContained(RectOf(interactiveElements[k1]),
                             RectOf(interactiveElements[k2]))

\* the ratio is the number 1
IsOne(r) == r.num = r.den /\ r.den > 0

\* the ratio is the number 0
IsZero(r) == r.num = 0

\* the two ratios are the same number
SameRatio(r, q) == r.num * q.den = q.num * r.den

\* C19 as stated: calculateIou is 0 on disjoint rects, 1 on identical rects,
\* those of no width or height included, and the same in both argument orders.
C19_IouCorrect ==
  iou.called =>
    /\ ~Intersects(iou.rect1, iou.rect2) => IsZero(iou.value)
    /\ iou.rect1 = iou.rect2 => IsOne(iou.value)
    /\ SameRatio(iou.value, iou.swapped)

\* C19 amended: calculateIou is 0 on disjoint rects, 1 on identical rects of
\* positive area, 0 on identical rects of no width or no height, and the same
\* in both argument orders.
C19_IouCorrectPositiveArea ==
  iou.called =>
    /\ ~Intersects(iou.rect1, iou.rect2) => IsZero(iou.value)
    /\ (iou.rect1 = iou.rect2 /\ iou.rect1.width * iou.rect1.height > 0)
         => IsOne(iou.value)
    /\ (iou.rect1 = iou.rect2 /\ iou.rect1.width * iou.rect1.height = 0)
         => IsZero(iou.value)
    /\ SameRatio(iou.value, iou.swapped)

C19_Witness ==
  /\ iou.called
  /\ iou.rect1 = iou.rect2
  /\ iou.rect1.width = 0
  /\ iou.rect1.height > 0
  /\ IsZero(iou.value)

\* the texts of IndexTexts that are written as a key: digits only
IsKeyText(str) == str # << >> /\ cleanedIndexStr(str) = str

\* the index given to click_element is a key of the captured state
GivenIndexIsKey ==
  IsKeyText(click.index) /\ parseInt(click.index) \in DOMAIN interactiveElements

\* C20: click_element with an index that is no key of the state's interactive
\* elements (negative and non-integer ones included) returns an error and
\* touches neither the mouse nor the tabs.
C20_UnknownIndexNoInteraction ==
  (click.called /\ ~GivenIndexIsKey) =>
    /\ click.error \in { "not_a_number", "does_not_exist" }
    /\ click.did = << >>

\* the number of endpoint calls made
CallsMade == Len(detCalls) + (IF detPc = "call" THEN 1 ELSE 0)

C22_FailedCaptureLastGoodOrThrows ==
  [][ /\ (sp = "upd" /\ sp' = "llm") => bstate' = "captured"
      /\ (sp = "upd" /\ sp' = "none" /\ browserRef) => bstate # "captured"
    ]_vars

\* C23: an invocation started with neither a prompt nor a resume state ends
\* at once without an output: the history stays empty and no step is started
\* (so no LLM call is made).
C23_NoInputIsFatal ==
  (omitsInput /\ runs > 0) =>
    /\ ret # "output"
    /\ pc = "end"
    /\ messages = << >>
    /\ started = 0
    /\ sp = "none"

\* C24: when an invocation enters its loop, the history is either exactly the
\* message list of the saved state it resumed from, or exactly the fresh
\* bootstrap (system message and task message).
C24_ResumeRoundTrip ==
  [][ (runs' = runs + 1 /\ pc' = "loop") =>
        \/ (saved.has /\ messages' = saved.messages)
        \/ messages' = Bootstrap(impl)
    ]_vars

\* C25: generateAction accepts every JSON object whose thought and action.name
\* are strings, with a missing action.params read as the empty map and a
\* missing summary allowed, and rejects an object without thought or without
\* action.name.
C25_ParsesWellFormedOutput ==
  (llmOutput # NoOutput /\ llmResponse.json = "object") =>
    /\ (IsString(llmResponse.thought) /\ IsString(llmResponse.name)) =>
         /\ llmOutput.kind = "parsed"
         /\ llmOutput.thought = llmResponse.thought
         /\ llmOutput.name = llmResponse.name
         /\ llmOutput.params =
              IF llmResponse.params = "absent" THEN "emptymap"
              ELSE llmResponse.params
    /\ (llmResponse.thought = "absent" \/ llmResponse.name = "absent") =>
         llmOutput = Rejected

\* the number of assistant messages of a history
Assistants(msgs) == Cardinality({i \in 1..Len(msgs) : msgs[i].role = "assistant"})

C27_ContentOrErrorNotBoth ==
  click.called => ~(click.error # "none" /\ click.content)

\* C28: combineAndFilterElements leaves the two lists it was given as they
\* were: the same elements in the same order with the same field values,
\* index included.
C28_InputsUnchanged ==
  fusionOp = "combine" => browserElements \o cvElements = fusionIn

\* C29: whenever the LLM is being called in a step, the last message of the
\* history sent to it is the state message of the browser state captured in
\* that step; and an action is dispatched only after the assistant message
\* was appended.
C29_LlmSeesCurrentState ==
  /\ sp = "llm" =>
       /\ Len(messages) = Len(stepLog.before) + 1
       /\ messages[Len(messages)].kind = "state"
  /\ sp = "act" => \E i \in 1..Len(messages) : messages[i].role = "assistant"

\* C30: once the timer has won the race, the abandoned step changes neither
\* the history nor the browser state, and its result is discarded.
C30_AbandonedStepTouchesNothing ==
  [][ (abandoned /\ sp' # sp) =>
        /\ messages' = messages
        /\ bstate' = bstate
        /\ actionResult' = actionResult
        /\ stepCount' = stepCount
    ]_vars

\* an ActionResult with error set and isDone false
Failed(res) == res.tag # "none" /\ res.error # "" /\ ~res.isDone

\* C31: a step that returns a failed ActionResult does not end run or
\* runStream (only a timeout found after it does), and the state message of
\* the next step carries that error as the previous action's outcome.
C31_FailedActionContinues ==
  [][ /\ (sp = "act" /\ returned' = returned + 1 /\ Failed(actionResult')) =>
           \/ pc' = "loop"
           \/ chunks' = Append(chunks, "step_timeout")
      /\ (sp = "upd" /\ sp' = "llm" /\ Failed(actionResult)) =>
           /\ Len(messages') = Len(messages) + 1
           /\ messages'[Len(messages')].kind = "state"
           /\ stepLog'.prev \in {"error", "both"}
    ]_vars

C31_Witness ==
  /\ sp = "llm"
  /\ Failed(actionResult)
  /\ returned = 1
  /\ started = 2
  /\ stepLog.prev = "error"
  /\ actionResult.error = "handler"

\* C32: executeAction turns every value a handler returns into an
\* ActionResult: a result object (or an object with its fields) keeps its
\* fields, a bare string becomes the content of a result that is not done,
\* and any other value gives a result with some content, no error and
\* isDone false.
C32_ReturnValueNormalised ==
  (exec.called /\ exec.handler \notin {"none", "throws"}) =>
     /\ ~exec.threw
     /\ exec.result.tag = "result"
     /\ exec.handler \in {"result", "failure", "done", "object"} =>
          exec.result = HandlerValue(exec.handler)
     /\ exec.handler = "string" => exec.result = Result(FALSE, "text", "")
     /\ exec.handler = "undefined" =>
          /\ ~exec.result.isDone
          /\ exec.result.content # ""
          /\ exec.result.error = ""

\* C33: the element listing of a state message has one entry for every
\* interactive element of the snapshot that is no grid helper, and none for a
\* row_ or column_ helper.
C33_ListingSkipsGridHelpers ==
  listing.called =>
    /\ Len(listing.entries) =
         Cardinality({k \in 1..Len(snapshot) : snapshot[k] = "element"})
    /\ \A i \in 1..Len(listing.entries) :
         snapshot[listing.entries[i] + 1] = "element"

\* C34: step() called on an agent that was never set up or whose browser was
\* closed throws at once: no browser state is captured, the history does not
\* change, the LLM is not called and no action is dispatched.
C34_StepNeedsReadyAgent ==
  [][ (calls' = calls + 1 /\ pc' = pc /\ pc \in {"idle", "end"}) =>
        /\ stepLog'.phase = "guard"
        /\ messages' = messages
        /\ bstate' = bstate
        /\ browserOpen' = browserOpen
    ]_vars

\* C35: whenever the history is not empty it holds exactly one system
\* message, and that message is the first one.
C35_OneSystemMessageFirst ==
  messages # << >> =>
    /\ messages[1].role = "system"
    /\ Cardinality({i \in 1..Len(messages) : messages[i].role = "system"}) = 1

\* C36: once the invocation has closed the browser, no step of it is still
\* working on the browser: no updateState() and no action handler that was
\* in flight comes back after the close, and the browser stays closed until
\* the next invocation.
C36_NoBrowserUseAfterClose ==
  [][ (pc = "end" /\ closes > 0 /\ ~browserOpen /\ pc' = "end") =>
        /\ sp \in {"upd", "act"} => sp' = sp
        /\ ~browserOpen'
    ]_vars

\* C37: the step field of a TimeoutChunk is the number of steps completed so
\* far in the run: prevStep plus the steps completed in this invocation.
C37_TimeoutStepIsStepsCompleted ==
  [][ chunks' = Append(chunks, "step_timeout") =>
        /\ saved'.has
        /\ saved'.step = stepCount'
        /\ saved'.step = prevStep' + returned'
    ]_vars

\* C38: filterOverlappingElements returns elements of its input, each at most
\* once, and no two of the elements it returns have an IoU above the
\* threshold.
C38_FilterOutputPairwiseApart ==
  fusionOp = "filter" =>
    /\ IdsOf(fusionOut) \subseteq IdsOf(fusionIn)
    /\ \A i, j \in 1..Len(fusionOut) :
         i # j =>
           /\ fusionOut[i].id # fusionOut[j].id
           /\ ~AboveThreshold(calculateIou(impl, RectOf(fusionOut[i]),
                                           RectOf(fusionOut[j])))

\* C39: every invocation of run or runStream that has entered its loop comes
\* to its end: run returns or rejects, runStream yields its last chunk.
C39_InvocationTerminates ==
  (pc \in {"loop", "await", "teardown"}) ~> (pc = "end")

C39_Witness ==
  /\ pc = "end"
  /\ mode = "stream"
  /\ started = 2
  /\ returned = 1
  /\ "step_error" \in Range(chunks)
  /\ "final_output" \in Range(chunks)

\* the number of messages of a history that are of a kind
CountKind(msgs, kind) == Cardinality({i \in 1..Len(msgs) : msgs[i].kind = kind})

\* C40: in the first invocation on a fresh agent, after N steps that all
\* returned, the stored history is the system message, the task message, N
\* assistant messages and N compact state messages, and holds no full-size
\* state message.
C40_HistoryShape ==
  (/\ runs = 1
   /\ pc = "loop"
   /\ sp = "none"
   /\ returned = started
   /\ stepCount = returned) =>
    /\ Len(messages) = 2 + 2 * returned
    /\ Kinds(SubSeq(messages, 1, 2)) = << "sys", "task" >>
    /\ CountKind(messages, "assistant") = returned
    /\ CountKind(messages, "compact") = returned
    /\ CountKind(messages, "state") = 0

====
